---- MODULE Spec2Model ----
(***************************************************************************)
(* NotificationFeed (feedly/feeds/notification_feed.py): a per-user        *)
(* sorted set of aggregated activities, a denormalized unseen count, a     *)
(* pubsub channel and a redis lock with a hold timeout, used by any        *)
(* number of concurrent callers.                                           *)
(*                                                                         *)
(* Every redis round trip is one step of the calling process.  The parts   *)
(* of the repository that notification_feed.py only calls                  *)
(* (AggregatedFeed.add_many, the sorted set, the serializer, map()) are    *)
(* modelled from their description in spec.md.                             *)
(***************************************************************************)
EXTENDS Integers, Sequences, FiniteSets, TLC

(* ----------------------------- bounds ---------------------------------- *)
\* Calls started over a run, all callers together.
MaxCalls == 2

Procs  == {"p1", "p2"}
Users  == {"u1", "u2"}
Groups == {1, 2, 3}
\* the groups one add_many call brings a new activity for
AddInputs == {{1}, {3}, {1, 2, 3}}

(* ------------------------ program constants ---------------------------- *)
\* max_length = 99 in the source; scaled to 2 so that a feed of three
\* groups has an entry below the top max_length.
max_length == 2
\* redis.lock(self.lock_key, timeout=2)
timeout == 2
\* seen_at / read_at of an entry that is not seen / not read (None)
NoTime == -1
\* what the pubsub channel holds before the first publish
NoMessage == -1

\* pubsub_key is set when the feed class has a pubsub_format; the feed
\* class of u2 is one without it.
pubsub_key(u) == u = "u1"

(* --------------------------- activities -------------------------------- *)
Activity(g, u, s, r) ==
    [group |-> g, updated_at |-> u, seen_at |-> s, read_at |-> r]

is_seen(a) == a.seen_at # NoTime
is_read(a) == a.read_at # NoTime

\* The serialized form is the sorted-set member, its score is updated_at.
serialize_activity(a) == <<a.group, a.updated_at, a.seen_at, a.read_at>>
deserialize_activity(v) == Activity(v[1], v[2], v[3], v[4])
get_activity_score(a) == a.updated_at

\* Rank of two members of the sorted set: higher score first, equal scores
\* by the member itself.
Before(v, w) ==
    \/ v[2] > w[2]
    \/ v[2] = w[2] /\ v[1] < w[1]
    \/ v[2] = w[2] /\ v[1] = w[1] /\ v[3] < w[3]
    \/ v[2] = w[2] /\ v[1] = w[1] /\ v[3] = w[3] /\ v[4] < w[4]

RECURSIVE Ranked(_)
Ranked(S) ==
    IF S = {} THEN <<>>
    ELSE LET m == CHOOSE x \in S : \A y \in S \ {x} : Before(x, y)
         IN  <<m>> \o Ranked(S \ {m})

Min(a, b) == IF a < b THEN a ELSE b
Take(s, n) == SubSeq(s, 1, Min(n, Len(s)))

\* self[:n]: the first n entries of the sorted set, deserialized
GetSlice(S, n) ==
    LET r == Take(Ranked(S), n)
    IN  [i \in 1..Len(r) |-> deserialize_activity(r[i])]

\* activities.sort(key=lambda x: x.updated_at, reverse=True): stable
\* (variant: reverse=True left out)
RECURSIVE InsertAsc(_, _)
InsertAsc(a, s) ==
    IF s = <<>> THEN <<a>>
    ELSE IF Head(s).updated_at <= a.updated_at
         THEN <<Head(s)>> \o InsertAsc(a, Tail(s))
         ELSE <<a>> \o s

RECURSIVE InsertDesc(_, _)
InsertDesc(a, s) ==
    IF s = <<>> THEN <<a>>
    ELSE IF Head(s).updated_at >= a.updated_at
         THEN <<Head(s)>> \o InsertDesc(a, Tail(s))
         ELSE <<a>> \o s

RECURSIVE SortDesc(_)
SortDesc(s) ==
    IF s = <<>> THEN <<>>
    ELSE InsertDesc(s[Len(s)], SortDesc(SubSeq(s, 1, Len(s) - 1)))

count_unseen(s) == Cardinality({i \in DOMAIN s : ~is_seen(s[i])})

\* (variant: the slice [:max_length] left out)
DenormCountAll(s) == count_unseen(SortDesc(s))

\* the count denormalize_count writes for a collection
DenormCount(s) == count_unseen(Take(SortDesc(s), max_length))


(* ---------------------------- aggregation ------------------------------ *)
\* AggregatedFeed.add_many: the aggregator folds one new activity per group
\* of gs, dated t, into the stored entries.  A group that has an entry gets
\* its entry replaced (old member removed, new member added) with the new
\* updated_at; a group that has none gets a new unseen, unread entry.
Forms(S, g) == {v \in S : v[1] = g}
OldForm(S, g) == CHOOSE v \in Forms(S, g) : \A w \in Forms(S, g) \ {v} : Before(v, w)
Merge(S, gs, t) ==
    LET olds == {OldForm(S, g) : g \in {h \in gs : Forms(S, h) # {}}}
        news == {<<v[1], t, v[3], v[4]>> : v \in olds}
                  \cup {<<g, t, NoTime, NoTime>> : g \in {h \in gs : Forms(S, h) = {}}}
    IN  (S \ olds) \cup news

(* ------------------------- redis primitives ---------------------------- *)
\* A string cell of redis: absent, or the text last written to it.
Absent == [exists |-> FALSE, text |-> ""]
Cell(n) == [exists |-> TRUE, text |-> ToString(n)]

\* int(text) for the decimal texts the model can hold
Decimals == 0..99
IsDecimal(t) == \E n \in Decimals : ToString(n) = t
ParseInt(t) == CHOOSE n \in Decimals : ToString(n) = t

\* The lock key of redis.lock(name, timeout): absent, or set by `owner`
\* `age` time units ago; a key whose hold time has run out is free to take.
Unlocked == [owner |-> "none", age |-> 0]
\* (variant: the key is taken one time unit before its hold time is over)
LockFreeEarly(l) == l.owner = "none" \/ l.age >= timeout - 1
LockFree(l) == l.owner = "none" \/ l.age >= timeout
\* the context manager's exit deletes the key its own acquire has set
Release(l, p) == IF l.owner = p THEN Unlocked ELSE l

(* ------------------------------ state ---------------------------------- *)
VARIABLES
    store,        \* store[u]: members of the sorted set key_format % u
    counter,      \* counter[u]: the cell count_key
    channel,      \* channel[u]: last payload published on pubsub_key
    lock,         \* lock[u]: the cell lock_key
    pc,           \* pc[p]: where caller p is in its call
    op,           \* op[p]: the call p is making
    acts,         \* acts[p]: local current_activities / activities
    update_dict,  \* update_dict[p]: mark_all's {old: new}
    count,        \* count[p]: local count, or a reader's result
    err,          \* err[p]: the exception that ended p's call
    log,          \* log[p]: the writes p's call has made, in order
    hold,         \* hold[p]: time units p has been inside its guarded block
    raced,        \* raced[u]: two guarded blocks of u have overlapped
    dirty,        \* dirty[u]: the last writing call on u failed midway
    ncalls        \* calls started so far

vars == <<store, counter, channel, lock, pc, op, acts, update_dict,
          count, err, log, hold, raced, dirty, ncalls>>

\* time: what datetime.today() gives during the call, and the time of the
\* activities it brings.  Calls are dated by their order: the n-th call of
\* a run has time n.
NoOp == [name |-> "none", user |-> "none", time |-> 0, groups |-> {},
         seen |-> FALSE, read |-> FALSE]

BlockPcs == {"am_aggregate", "am_set", "am_publish", "am_publish2", "am_exit",
             "ma_read", "ma_set", "ma_publish", "ma_flush", "ma_exit"}
InBlock(p) == pc[p] \in BlockPcs
Mutating(p) == op[p].name \in {"add_many", "mark_all"}
\* no add_many / mark_all of user u is between its call and its return
Quiescent(u) == \A p \in Procs : op[p].user = u /\ Mutating(p) =>
                                   pc[p] \in {"done", "failed"}

\* The feed of u1 has had one add_many, at time 0, of a new activity in
\* each group; the feed of u2 has not been touched yet.
FirstFeed == Merge({}, Groups, 0)
FirstCount == DenormCount(GetSlice(FirstFeed, Cardinality(FirstFeed)))

InitFeeds ==
    /\ store = [u \in Users |-> IF u = "u1" THEN FirstFeed ELSE {}]
    /\ counter = [u \in Users |-> IF u = "u1" THEN Cell(FirstCount) ELSE Absent]
    /\ channel = [u \in Users |-> IF u = "u1" /\ pubsub_key(u) THEN FirstCount
                                  ELSE NoMessage]

Init ==
    /\ InitFeeds
    /\ lock = [u \in Users |-> Unlocked]
    /\ pc = [p \in Procs |-> "idle"]
    /\ op = [p \in Procs |-> NoOp]
    /\ acts = [p \in Procs |-> <<>>]
    /\ update_dict = [p \in Procs |-> {}]
    /\ count = [p \in Procs |-> 0]
    /\ err = [p \in Procs |-> "none"]
    /\ log = [p \in Procs |-> <<>>]
    /\ hold = [p \in Procs |-> 0]
    /\ raced = [u \in Users |-> FALSE]
    /\ dirty = [u \in Users |-> FALSE]
    /\ ncalls = 0

\* One time unit passes: every lock key that is set, and every caller
\* inside a guarded block, gets older.  Ages are only read up to the hold
\* timeout.
Older(n) == IF n < timeout THEN n + 1 ELSE n

Tick ==
    /\ \E u \in Users : lock[u].owner # "none" /\ lock[u].age < timeout
    /\ lock' = [u \in Users |->
                  IF lock[u].owner # "none"
                  THEN [lock[u] EXCEPT !.age = Older(@)] ELSE lock[u]]
    /\ hold' = [p \in Procs |-> IF InBlock(p) THEN Older(hold[p]) ELSE hold[p]]
    /\ UNCHANGED <<store, counter, channel, pc, op, acts, update_dict,
                   count, err, log, raced, dirty, ncalls>>

(* ------------------------------ calls ---------------------------------- *)
\* A caller that is not inside a call (it has made none yet, or has the
\* result or the exception of its last one) starts its next call with
\* fresh locals.
Free(p) == pc[p] \in {"idle", "done", "failed"}

\* (n: the calls a run may start)
Start(p, o, k, n) ==
    /\ Free(p)
    /\ ncalls < n
    /\ ncalls' = ncalls + 1
    /\ op' = [op EXCEPT ![p] = [o EXCEPT !.time = ncalls + 1]]
    /\ pc' = [pc EXCEPT ![p] = k]
    /\ update_dict' = [update_dict EXCEPT ![p] = {}]
    /\ log' = [log EXCEPT ![p] = <<>>]

add_many(p, u, gs, n) ==
    /\ gs # {}
    /\ Start(p, [NoOp EXCEPT !.name = "add_many", !.user = u, !.groups = gs],
             "lock", n)
    /\ acts' = [acts EXCEPT ![p] = <<>>]
    /\ count' = [count EXCEPT ![p] = 0]
    /\ err' = [err EXCEPT ![p] = "none"]
    /\ UNCHANGED <<store, counter, channel, lock, hold, raced, dirty>>

CallAddMany(p, u, gs) == add_many(p, u, gs, MaxCalls)

mark_all(p, u, seen, read, n) ==
    /\ Start(p, [NoOp EXCEPT !.name = "mark_all", !.user = u, !.seen = seen,
                             !.read = read], "lock", n)
    /\ acts' = [acts EXCEPT ![p] = <<>>]
    /\ count' = [count EXCEPT ![p] = 0]
    /\ err' = [err EXCEPT ![p] = "none"]
    /\ UNCHANGED <<store, counter, channel, lock, hold, raced, dirty>>

CallMarkAll(p, u, seen, read) == mark_all(p, u, seen, read, MaxCalls)

\* (variant: lock_format without the user id, one key for every feed)
AcquireShared(p) ==
    LET u == op[p].user IN
    /\ pc[p] = "lock"
    /\ \A w \in Users : LockFree(lock[w])
    /\ lock' = [w \in Users |-> [owner |-> p, age |-> 0]]
    /\ pc' = [pc EXCEPT ![p] = IF op[p].name = "add_many"
                               THEN "am_aggregate" ELSE "ma_read"]
    /\ hold' = [hold EXCEPT ![p] = 0]
    /\ raced' = [raced EXCEPT ![u] =
                   @ \/ \E q \in Procs \ {p} : InBlock(q) /\ op[q].user = u]
    /\ UNCHANGED <<store, counter, channel, op, acts, update_dict,
                   count, err, log, dirty, ncalls>>

\* with self.redis.lock(self.lock_key, timeout=2): the key is taken when it
\* is absent or its hold time has run out
Acquire(p) ==
    LET u == op[p].user IN
    /\ pc[p] = "lock"
    /\ LockFree(lock[u])
    /\ lock' = [lock EXCEPT ![u] = [owner |-> p, age |-> 0]]
    /\ pc' = [pc EXCEPT ![p] = IF op[p].name = "add_many"
                               THEN "am_aggregate" ELSE "ma_read"]
    /\ hold' = [hold EXCEPT ![p] = 0]
    /\ raced' = [raced EXCEPT ![u] =
                   @ \/ \E q \in Procs \ {p} : InBlock(q) /\ op[q].user = u]
    /\ UNCHANGED <<store, counter, channel, op, acts, update_dict,
                   count, err, log, dirty, ncalls>>

\* (variant: the lock is taken after AggregatedFeed.add_many has run)
LockFailAfterMerge(p) ==
    LET u == op[p].user IN
    /\ pc[p] = "lock"
    /\ pc' = [pc EXCEPT ![p] = "failed"]
    /\ err' = [err EXCEPT ![p] = "LockError"]
    /\ store' = [store EXCEPT ![u] = Merge(@, op[p].groups, op[p].time)]
    /\ UNCHANGED <<counter, channel, lock, op, acts, update_dict,
                   count, log, hold, raced, dirty, ncalls>>

\* the lock's backend fails: the exception leaves the call before the block
LockFail(p) ==
    /\ pc[p] = "lock"
    /\ pc' = [pc EXCEPT ![p] = "failed"]
    /\ err' = [err EXCEPT ![p] = "LockError"]
    /\ UNCHANGED <<store, counter, channel, lock, op, acts, update_dict,
                   count, log, hold, raced, dirty, ncalls>>

(* ----------------------------- add_many --------------------------------- *)
Event(k, n) == [kind |-> k, val |-> n]

\* current_activities = AggregatedFeed.add_many(self, activities)
AmAggregate(p) ==
    LET u == op[p].user
        S == Merge(store[u], op[p].groups, op[p].time)
    IN
    /\ pc[p] = "am_aggregate"
    /\ store' = [store EXCEPT ![u] = S]
    /\ acts' = [acts EXCEPT ![p] = GetSlice(S, Cardinality(S))]
    /\ log' = [log EXCEPT ![p] = Append(@, Event("store", 0))]
    /\ pc' = [pc EXCEPT ![p] = "am_set"]
    /\ UNCHANGED <<counter, channel, lock, op, update_dict, count, err,
                   hold, raced, dirty, ncalls>>

(* ------------------------- denormalize_count --------------------------- *)
\* activities.sort(...); count = count_unseen(activities[:max_length]);
\* self.redis.set(self.count_key, count)
DenormSet(p) ==
    LET u == op[p].user
        c == DenormCount(acts[p])
    IN
    /\ pc[p] \in {"am_set", "ma_set", "dn_set"}
    /\ acts' = [acts EXCEPT ![p] = SortDesc(@)]
    /\ count' = [count EXCEPT ![p] = c]
    /\ counter' = [counter EXCEPT ![u] = Cell(c)]
    /\ log' = [log EXCEPT ![p] = Append(@, Event("set", c))]
    /\ pc' = [pc EXCEPT ![p] =
                IF pubsub_key(u)
                THEN (CASE pc[p] = "am_set" -> "am_publish"
                        [] pc[p] = "ma_set" -> "ma_publish"
                        [] OTHER -> "dn_publish")
                ELSE (CASE pc[p] = "am_set" -> "am_exit"
                        [] pc[p] = "ma_set" -> "ma_flush"
                        [] OTHER -> "done")]
    /\ UNCHANGED <<store, channel, lock, op, update_dict, err, hold, raced,
                   dirty, ncalls>>

\* (variant: the payload is counted again, over the whole collection)
DenormPublishRecount(p) ==
    LET u == op[p].user IN
    /\ pc[p] \in {"am_publish", "ma_publish", "dn_publish"}
    /\ channel' = [channel EXCEPT ![u] = count_unseen(acts[p])]
    /\ log' = [log EXCEPT ![p] = Append(@, Event("publish", count_unseen(acts[p])))]
    /\ pc' = [pc EXCEPT ![p] = CASE pc[p] = "am_publish" -> "am_publish2"
                                 [] pc[p] = "ma_publish" -> "ma_flush"
                                 [] OTHER -> "done"]
    /\ UNCHANGED <<store, counter, lock, op, acts, update_dict, count,
                   err, hold, raced, dirty, ncalls>>

\* if self.pubsub_key: self.redis.publish(self.pubsub_key, count)
DenormPublish(p) ==
    LET u == op[p].user IN
    /\ pc[p] \in {"am_publish", "ma_publish", "dn_publish"}
    /\ channel' = [channel EXCEPT ![u] = count[p]]
    /\ log' = [log EXCEPT ![p] = Append(@, Event("publish", count[p]))]
    /\ pc' = [pc EXCEPT ![p] = CASE pc[p] = "am_publish" -> "am_publish2"
                                 [] pc[p] = "ma_publish" -> "ma_flush"
                                 [] OTHER -> "done"]
    /\ UNCHANGED <<store, counter, lock, op, acts, update_dict, count,
                   err, hold, raced, dirty, ncalls>>

\* add_many's own publish of the count denormalize_count returned
AmPublish(p) ==
    LET u == op[p].user IN
    /\ pc[p] = "am_publish2"
    /\ channel' = [channel EXCEPT ![u] = count[p]]
    /\ log' = [log EXCEPT ![p] = Append(@, Event("publish", count[p]))]
    /\ pc' = [pc EXCEPT ![p] = "am_exit"]
    /\ UNCHANGED <<store, counter, lock, op, acts, update_dict, count,
                   err, hold, raced, dirty, ncalls>>

(* ----------------------------- mark_all --------------------------------- *)
\* (variant: seen_at is set again on an entry that is seen already)
MarkAgain(a, seen, read, t) ==
    [a EXCEPT !.seen_at = IF seen THEN t ELSE @,
              !.read_at = IF read /\ ~is_read(a) THEN t ELSE @]

\* (variant: the seen branch tests is_read)
MarkTestsRead(a, seen, read, t) ==
    [a EXCEPT !.seen_at = IF seen /\ ~is_read(a) THEN t ELSE @,
              !.read_at = IF read /\ ~is_read(a) THEN t ELSE @]

\* (variant: the read branch runs whenever seen is requested too)
MarkReadsToo(a, seen, read, t) ==
    [a EXCEPT !.seen_at = IF seen /\ ~is_seen(a) THEN t ELSE @,
              !.read_at = IF (read \/ seen) /\ ~is_read(a) THEN t ELSE @]

\* the loop body of mark_all for one activity, at time t
Mark(a, seen, read, t) ==
    [a EXCEPT !.seen_at = IF seen /\ ~is_seen(a) THEN t ELSE @,
              !.read_at = IF read /\ ~is_read(a) THEN t ELSE @]

\* the activities list after the loop over self[:self.max_length]
Marked(S, seen, read, t) ==
    LET old == GetSlice(S, max_length)
    IN  [i \in DOMAIN old |-> Mark(old[i], seen, read, t)]

\* (variant: `changed` is set for every activity of the loop)
UpdateDictAll(S, seen, read, t) ==
    LET old == GetSlice(S, max_length)
        new == Marked(S, seen, read, t)
    IN  {<<old[i], new[i]>> : i \in DOMAIN old}

\* update_dict after the loop: the changed activities, {old: new}
UpdateDict(S, seen, read, t) ==
    LET old == GetSlice(S, max_length)
        new == Marked(S, seen, read, t)
    IN  {<<old[i], new[i]>> : i \in {j \in DOMAIN old : new[j] # old[j]}}

\* activities = self[:self.max_length], the loop and update_dict
MaRead(p) ==
    LET u == op[p].user IN
    /\ pc[p] = "ma_read"
    /\ acts' = [acts EXCEPT ![p] =
                  Marked(store[u], op[p].seen, op[p].read, op[p].time)]
    /\ update_dict' = [update_dict EXCEPT ![p] =
                  UpdateDict(store[u], op[p].seen, op[p].read, op[p].time)]
    /\ pc' = [pc EXCEPT ![p] = "ma_set"]
    /\ UNCHANGED <<store, counter, channel, lock, op, count, err, log,
                   hold, raced, dirty, ncalls>>

\* (variant: RedisSortedSetCache.add_many(self, to_add) left out)
FlushedOnlyRemoves(S, ud) == S \ {serialize_activity(x[1]) : x \in ud}

\* (variant: remove_many(to_delete) left out)
FlushedOnlyAdds(S, ud) == S \cup {serialize_activity(x[2]) : x \in ud}

\* what the batch of map() does to the sorted set when it is flushed:
\* remove_many(to_delete), then add_many(to_add)
Flushed(S, ud) ==
    (S \ {serialize_activity(x[1]) : x \in ud})
        \cup {serialize_activity(x[2]) : x \in ud}

\* leaving `with self.map()`: the batch is sent
MaFlush(p) ==
    LET u == op[p].user IN
    /\ pc[p] = "ma_flush"
    /\ store' = [store EXCEPT ![u] = Flushed(@, update_dict[p])]
    /\ log' = [log EXCEPT ![p] = IF update_dict[p] = {} THEN @
                                 ELSE Append(@, Event("store", 0))]
    /\ pc' = [pc EXCEPT ![p] = "ma_exit"]
    /\ UNCHANGED <<counter, channel, lock, op, acts, update_dict, count,
                   err, hold, raced, dirty, ncalls>>

(* --------------------------- leaving the block ------------------------- *)
\* what is left of a call once it is over: which call it was, not the
\* activities it brought nor its clock
Returned(o) == [o EXCEPT !.groups = {}, !.time = 0]

\* the end of the with block: the lock is released, the call returns
Exit(p) ==
    LET u == op[p].user IN
    /\ pc[p] \in {"am_exit", "ma_exit"}
    /\ lock' = [lock EXCEPT ![u] = Release(@, p)]
    /\ dirty' = [dirty EXCEPT ![u] = FALSE]
    /\ pc' = [pc EXCEPT ![p] = "done"]
    /\ hold' = [hold EXCEPT ![p] = 0]
    /\ op' = [op EXCEPT ![p] = Returned(@)]
    /\ update_dict' = [update_dict EXCEPT ![p] = {}]
    /\ count' = [count EXCEPT ![p] = 0]
    /\ UNCHANGED <<store, counter, channel, acts, err, log, raced, ncalls>>

\* A redis call of the block raises: the exception leaves the with block,
\* which releases the lock, and reaches the caller.  Inside map() the batch
\* collected so far is either sent or dropped.
FailKind(k) ==
    IF k \in {"am_publish", "am_publish2", "ma_publish"} THEN "PublishFailure"
    ELSE "StoreFailure"

Failing(p, kept) ==
    LET u == op[p].user IN
    /\ pc[p] \in {"am_aggregate", "am_set", "am_publish", "am_publish2",
                  "ma_read", "ma_set", "ma_publish", "ma_flush"}
    /\ \E sent \in BOOLEAN :
          /\ sent => pc[p] \in {"ma_set", "ma_publish"} /\ update_dict[p] # {}
          /\ store' = [store EXCEPT ![u] =
                         IF sent THEN Flushed(@, update_dict[p]) ELSE @]
          /\ log' = [log EXCEPT ![p] =
                         IF sent THEN Append(@, Event("store", 0)) ELSE @]
    /\ lock' = [lock EXCEPT ![u] = IF kept THEN @ ELSE Release(@, p)]
    /\ dirty' = [dirty EXCEPT ![u] = @ \/ log'[p] # <<>>]
    /\ err' = [err EXCEPT ![p] = FailKind(pc[p])]
    /\ pc' = [pc EXCEPT ![p] = "failed"]
    /\ hold' = [hold EXCEPT ![p] = 0]
    /\ acts' = [acts EXCEPT ![p] = <<>>]
    /\ update_dict' = [update_dict EXCEPT ![p] = {}]
    /\ count' = [count EXCEPT ![p] = 0]
    /\ op' = [op EXCEPT ![p] = Returned(@)]
    /\ UNCHANGED <<counter, channel, raced, ncalls>>

\* (variant: the lock is released only when the block ends normally)
FailKeepsLock(p) == Failing(p, TRUE)

Fail(p) == Failing(p, FALSE)

(* ------------------------------ readers -------------------------------- *)
\* (variant: `or 0` left out, int(None) raises)
CountReadableStrict(c) == c.exists /\ IsDecimal(c.text)

\* result = self.redis.get(self.count_key) or 0; result = int(result)
CountReadable(c) == ~c.exists \/ c.text = "" \/ IsDecimal(c.text)
get_denormalized_count(c) ==
    IF ~c.exists \/ c.text = "" THEN 0 ELSE ParseInt(c.text)

GetDenormalizedCount(p, u) ==
    /\ Start(p, [NoOp EXCEPT !.name = "get_denormalized_count", !.user = u],
             IF CountReadable(counter[u]) THEN "done" ELSE "failed", MaxCalls)
    /\ count' = [count EXCEPT ![p] = IF CountReadable(counter[u])
                                     THEN get_denormalized_count(counter[u])
                                     ELSE 0]
    /\ err' = [err EXCEPT ![p] = IF CountReadable(counter[u]) THEN "none"
                                 ELSE "ValueError"]
    /\ acts' = [acts EXCEPT ![p] = <<>>]
    /\ UNCHANGED <<store, counter, channel, lock, hold, raced, dirty>>

\* (variant: the read is made under the feed's lock)
CountUnseenLocked(p, u) ==
    /\ LockFree(lock[u])
    /\ Start(p, [NoOp EXCEPT !.name = "count_unseen", !.user = u], "done", MaxCalls)
    /\ count' = [count EXCEPT ![p] = count_unseen(GetSlice(store[u], max_length))]
    /\ err' = [err EXCEPT ![p] = "none"]
    /\ acts' = [acts EXCEPT ![p] = <<>>]
    /\ UNCHANGED <<store, counter, channel, lock, hold, raced, dirty>>

\* count_unseen() without a collection: counts over self[:self.max_length]
CountUnseen(p, u) ==
    /\ Start(p, [NoOp EXCEPT !.name = "count_unseen", !.user = u], "done", MaxCalls)
    /\ count' = [count EXCEPT ![p] = count_unseen(GetSlice(store[u], max_length))]
    /\ err' = [err EXCEPT ![p] = "none"]
    /\ acts' = [acts EXCEPT ![p] = <<>>]
    /\ UNCHANGED <<store, counter, channel, lock, hold, raced, dirty>>

(* --------------------------- specification ----------------------------- *)
Next ==
    \/ Tick
    \/ \E p \in Procs, u \in Users, gs \in AddInputs : CallAddMany(p, u, gs)
    \/ \E p \in Procs, u \in Users, seen \in BOOLEAN, read \in BOOLEAN :
          CallMarkAll(p, u, seen, read)
    \/ \E p \in Procs : Acquire(p)
    \/ \E p \in Procs : LockFail(p)
    \/ \E p \in Procs : AmAggregate(p)
    \/ \E p \in Procs : DenormSet(p)
    \/ \E p \in Procs : DenormPublish(p)
    \/ \E p \in Procs : AmPublish(p)
    \/ \E p \in Procs : MaRead(p)
    \/ \E p \in Procs : MaFlush(p)
    \/ \E p \in Procs : Exit(p)
    \/ \E p \in Procs : Fail(p)
    \/ \E p \in Procs, u \in Users : GetDenormalizedCount(p, u)
    \/ \E p \in Procs, u \in Users : CountUnseen(p, u)

Spec == Init /\ [][Next]_vars

\* Scheduling: time passes, and a caller inside a call takes its next step
\* (the lock is polled until it is free; every redis call returns).
Run(p) ==
    \/ Acquire(p) \/ AmAggregate(p) \/ DenormSet(p) \/ DenormPublish(p)
    \/ AmPublish(p) \/ MaRead(p) \/ MaFlush(p) \/ Exit(p)

\* Two callers contending for the lock of u1, p1 with add_many and p2 with
\* mark_all, under that scheduling.
NextLock ==
    \/ Tick
    \/ CallAddMany("p1", "u1", {3})
    \/ CallMarkAll("p2", "u1", TRUE, FALSE)
    \/ \E p \in Procs : Acquire(p)
    \/ \E p \in Procs : LockFail(p)
    \/ \E p \in Procs : AmAggregate(p)
    \/ \E p \in Procs : DenormSet(p)
    \/ \E p \in Procs : DenormPublish(p)
    \/ \E p \in Procs : AmPublish(p)
    \/ \E p \in Procs : MaRead(p)
    \/ \E p \in Procs : MaFlush(p)
    \/ \E p \in Procs : Exit(p)
    \/ \E p \in Procs : Fail(p)

FairSpec ==
    Init /\ [][NextLock]_vars /\ WF_vars(Tick) /\ \A p \in Procs : WF_vars(Run(p))

(* ------------------ callers of u1 that overrun the lock ---------------- *)
\* calls started over a run of the callers of u1
MaxRace == 3

\* Both callers work on the feed of u1: they mark it read, mark it seen, or
\* add an activity of group 3.
NextRace ==
    \/ Tick
    \/ \E p \in Procs : mark_all(p, "u1", FALSE, TRUE, MaxRace)
    \/ \E p \in Procs : mark_all(p, "u1", TRUE, FALSE, MaxRace)
    \/ \E p \in Procs : add_many(p, "u1", {3}, MaxRace)
    \/ \E p \in Procs : Acquire(p)
    \/ \E p \in Procs : AmAggregate(p)
    \/ \E p \in Procs : DenormSet(p)
    \/ \E p \in Procs : DenormPublish(p)
    \/ \E p \in Procs : AmPublish(p)
    \/ \E p \in Procs : MaRead(p)
    \/ \E p \in Procs : MaFlush(p)
    \/ \E p \in Procs : Exit(p)
    \/ \E p \in Procs : Fail(p)

SpecRace == Init /\ [][NextRace]_vars

(* ------------- readers of a counter cell with any content -------------- *)
\* what another client of the redis server may have left in count_key
Texts == {"", "0", "2", "abc"}
CounterCells == {Absent} \cup {[exists |-> TRUE, text |-> x] : x \in Texts}

InitRead ==
    /\ store = [u \in Users |-> IF u = "u1" THEN FirstFeed ELSE {}]
    /\ counter \in [Users -> CounterCells]
    /\ channel = [u \in Users |-> NoMessage]
    /\ lock = [u \in Users |-> Unlocked]
    /\ pc = [p \in Procs |-> "idle"]
    /\ op = [p \in Procs |-> NoOp]
    /\ acts = [p \in Procs |-> <<>>]
    /\ update_dict = [p \in Procs |-> {}]
    /\ count = [p \in Procs |-> 0]
    /\ err = [p \in Procs |-> "none"]
    /\ log = [p \in Procs |-> <<>>]
    /\ hold = [p \in Procs |-> 0]
    /\ raced = [u \in Users |-> FALSE]
    /\ dirty = [u \in Users |-> FALSE]
    /\ ncalls = 0

NextRead ==
    \/ \E p \in Procs, u \in Users : GetDenormalizedCount(p, u)
    \/ \E p \in Procs, u \in Users : CountUnseen(p, u)

SpecRead == InitRead /\ [][NextRead]_vars

(* --------------- denormalize_count called on a collection -------------- *)
\* longest collection handed to denormalize_count
MaxColl == 4

\* collections of entries of distinct groups, each updated at 0 or 1 and
\* unseen or seen
Shapes == {0, 1} \X {NoTime, 0}
Collections ==
    UNION {{[i \in 1..n |-> Activity(i, f[i][1], f[i][2], NoTime)] :
              f \in [1..n -> Shapes]} : n \in 0..MaxColl}

\* p1 is about to run denormalize_count(activities) for some user, on
\* feeds as Init has them
InitDenorm ==
    /\ InitFeeds
    /\ lock = [u \in Users |-> Unlocked]
    /\ \E u \in Users, c \in Collections :
          /\ op = [p \in Procs |->
                    IF p = "p1"
                    THEN [NoOp EXCEPT !.name = "denormalize_count", !.user = u]
                    ELSE NoOp]
          /\ acts = [p \in Procs |-> IF p = "p1" THEN c ELSE <<>>]
    /\ pc = [p \in Procs |-> IF p = "p1" THEN "dn_set" ELSE "idle"]
    /\ update_dict = [p \in Procs |-> {}]
    /\ count = [p \in Procs |-> 0]
    /\ err = [p \in Procs |-> "none"]
    /\ log = [p \in Procs |-> <<>>]
    /\ hold = [p \in Procs |-> 0]
    /\ raced = [u \in Users |-> FALSE]
    /\ dirty = [u \in Users |-> FALSE]
    /\ ncalls = 0

NextDenorm == \E p \in Procs : DenormSet(p) \/ DenormPublish(p)

SpecDenorm == InitDenorm /\ [][NextDenorm]_vars


(* ============================== claims ================================= *)
\* The unseen entries among the first max_length members of a sorted set,
\* counted on the set itself.
RankIn(v, S) == 1 + Cardinality({w \in S : Before(w, v)})
UnseenInTop(S) ==
    Cardinality({v \in S : v[3] = NoTime /\ RankIn(v, S) <= max_length})

CountConsistent(u) == get_denormalized_count(counter[u]) = UnseenInTop(store[u])

Logged(p, k) == \E i \in DOMAIN log[p] : log[p][i].kind = k

C2_MutualExclusion_AsClaimed ==
    \A p, q \in Procs :
        p # q /\ InBlock(p) /\ InBlock(q) => op[p].user # op[q].user

\* C2 (amended): a caller that has been inside its guarded block for less
\* than the hold timeout owns the user's lock key, so two callers are inside
\* the block of one user only once one of them has held it for the timeout.
C2_MutualExclusion ==
    /\ \A p \in Procs :
          InBlock(p) /\ hold[p] < timeout => lock[op[p].user].owner = p
    /\ \A p, q \in Procs :
          p # q /\ InBlock(p) /\ InBlock(q) /\ op[p].user = op[q].user
             => hold[p] >= timeout \/ hold[q] >= timeout

C2_Witness ==
    \E p, q \in Procs :
        /\ p # q /\ op[p].user = op[q].user
        /\ InBlock(p) /\ hold[p] = timeout - 1 /\ pc[q] = "lock"

\* the step in which mark_all returns
MarkAllReturns(p) == pc[p] = "ma_exit" /\ pc'[p] = "done"

Swapped(p) ==
    \A x \in update_dict[p] :
        /\ serialize_activity(x[2]) \in store'[op[p].user]
        /\ serialize_activity(x[1]) \notin store'[op[p].user]

\* C3 (as claimed): when mark_all returns, the store holds the new form and
\* not the prior form of every entry it changed, in every interleaving.
C3_ValueIdentitySwap_AsClaimed ==
    [][\A p \in Procs : MarkAllReturns(p) => Swapped(p)]_vars

\* C3 (amended): the same, when no two guarded blocks of the user have
\* overlapped.
C3_ValueIdentitySwap ==
    [][\A p \in Procs : MarkAllReturns(p) /\ ~raced[op[p].user] => Swapped(p)]_vars

C3_Witness ==
    \E p \in Procs :
        /\ pc[p] = "done" /\ op[p].name = "mark_all" /\ Logged(p, "store")
        /\ ~raced[op[p].user]
        /\ \E v \in store[op[p].user] : v[3] # NoTime

\* C4: every publish of a call carries the value of the call's latest
\* counter write, which comes before it.
C4_PublishAfterWrite ==
    \A p \in Procs : \A i \in DOMAIN log[p] :
        log[p][i].kind = "publish" =>
            \E j \in 1..(i - 1) :
                /\ log[p][j].kind = "set"
                /\ log[p][j].val = log[p][i].val
                /\ \A k \in (j + 1)..(i - 1) : log[p][k].kind # "set"

C4_Witness ==
    \E p \in Procs : pc[p] = "done" /\ Logged(p, "publish") /\ Logged(p, "store")

MarkedAll(p) ==
    LET u == op[p].user
        top == GetSlice(store'[u], max_length)
    IN  /\ acts'[p] = top
        /\ op[p].seen => /\ \A i \in DOMAIN top : is_seen(top[i])
                         /\ get_denormalized_count(counter'[u]) = 0
        /\ op[p].read => \A i \in DOMAIN top : is_read(top[i])

MarkAllStore(S, seen, read, t) == Flushed(S, UpdateDict(S, seen, read, t))
MarkAllCount(S, seen, read, t) == DenormCount(Marked(S, seen, read, t))

\* no two serialized forms of one group with the same updated_at
OneForm(S) == \A v, w \in S : v[1] = w[1] /\ v[2] = w[2] => v = w

\* a second mark_all(seen=True), at time t + 1, right after a first one at
\* time t changes no entry of S and writes the same count
MarkTwice(S, t) ==
    LET once == MarkAllStore(S, TRUE, FALSE, t) IN
    /\ UpdateDict(once, TRUE, FALSE, t + 1) = {}
    /\ MarkAllStore(once, TRUE, FALSE, t + 1) = once
    /\ MarkAllCount(once, TRUE, FALSE, t + 1) = MarkAllCount(S, TRUE, FALSE, t)

\* a mark_all that changed nothing has still written and published the count
Republished ==
    \A p \in Procs :
        pc[p] = "done" /\ op[p].name = "mark_all" /\ ~Logged(p, "store")
           => /\ Logged(p, "set")
              /\ pubsub_key(op[p].user) => Logged(p, "publish")

\* C6 (as claimed): on every store state, a second mark_all(seen=True)
\* right after a first one changes no entry (the seen_at of the first call
\* stay) and writes the same count, and it still republishes the count.
C6_MarkAllIdempotent_AsClaimed ==
    /\ \A u \in Users : MarkTwice(store[u], ncalls + 1)
    /\ Republished

\* C6 (amended): the same, on every store state that holds no two
\* serialized forms of one group with the same updated_at.
C6_MarkAllIdempotent ==
    /\ \A u \in Users : OneForm(store[u]) => MarkTwice(store[u], ncalls + 1)
    /\ Republished

C6_Witness ==
    \E p \in Procs :
        /\ pc[p] = "done" /\ op[p].name = "mark_all" /\ op[p].seen /\ ~op[p].read
        /\ ~Logged(p, "store") /\ Logged(p, "publish")
        /\ acts[p] # <<>>
        /\ \A i \in DOMAIN acts[p] : is_seen(acts[p][i])
        /\ \E v \in store[op[p].user] : v[3] # NoTime
        /\ OneForm(store[op[p].user])

Flip(s, k) == [s EXCEPT ![k].seen_at = IF @ = NoTime THEN 0 ELSE NoTime]
UnseenInFirst(s) ==
    Cardinality({i \in 1..Min(max_length, Len(s)) : s[i].seen_at = NoTime})
Denormalized(p) ==
    op[p].name = "denormalize_count" /\ pc[p] \in {"dn_publish", "done"}

\* C7: denormalize_count leaves the collection sorted by updated_at
\* descending, writes the number of unseen entries among its first
\* max_length and publishes that number; the seen state of an entry below
\* position max_length does not change the number.
C7_TopMaxLength ==
    \A p \in Procs : Denormalized(p) =>
        /\ \A i, j \in DOMAIN acts[p] :
              i < j => acts[p][i].updated_at >= acts[p][j].updated_at
        /\ counter[op[p].user] = Cell(UnseenInFirst(acts[p]))
        /\ count[p] = UnseenInFirst(acts[p])
        /\ \A k \in (max_length + 1)..Len(acts[p]) :
              DenormCount(Flip(acts[p], k)) = count[p]
        /\ pc[p] = "done" /\ pubsub_key(op[p].user)
              => channel[op[p].user] = count[p]

C7_Witness ==
    \E p \in Procs :
        /\ Denormalized(p) /\ pc[p] = "done" /\ Logged(p, "publish")
        /\ Len(acts[p]) > max_length
        /\ count[p] = 1
        /\ \E k \in (max_length + 1)..Len(acts[p]) : ~is_seen(acts[p][k])
        /\ acts[p][1].updated_at > acts[p][Len(acts[p])].updated_at

\* C8: a call whose lock acquisition fails ends with that error and has
\* written nothing: store, counter, channel and lock are as before.
C8_LockFailureNoMutation ==
    [][\A p \in Procs :
          pc[p] = "lock" /\ pc'[p] = "failed"
             => /\ err'[p] = "LockError"
                /\ log'[p] = <<>>
                /\ store' = store /\ counter' = counter
                /\ channel' = channel /\ lock' = lock]_vars

C8_Witness ==
    \E p, q \in Procs :
        /\ pc[p] = "failed" /\ err[p] = "LockError" /\ op[p].name = "add_many"
        /\ InBlock(q) /\ op[q].user = op[p].user

\* a caller that is not inside a guarded block owns no lock key
ReleasedOutside ==
    \A p \in Procs : ~InBlock(p) => \A u \in Users : lock[u].owner # p

\* C9: the lock is released on every way out of the guarded block, the
\* failures included; no caller waits for the lock forever and no lock key
\* stays taken forever.
C9_LockReleased ==
    /\ []ReleasedOutside
    /\ \A p \in Procs : []<>(pc[p] # "lock")
    /\ \A u \in Users : []<>LockFree(lock[u])

C9_Witness ==
    \E p, q \in Procs :
        /\ pc[p] = "failed" /\ err[p] \in {"StoreFailure", "PublishFailure"}
        /\ Logged(p, "set")
        /\ InBlock(q) /\ op[q].user = op[p].user /\ ~raced[op[p].user]

\* C10 (as claimed): a failing publish does not end the call with an
\* error.
C10_PublishFailureNonFatal ==
    \A p \in Procs : pc[p] = "failed" => err[p] # "PublishFailure"

\* C11 (as claimed): get_denormalized_count never raises, whatever the
\* counter cell holds; on a non-numeric cell it returns 0.
C11_MalformedReadsZero ==
    \A p \in Procs :
        op[p].name = "get_denormalized_count" /\ pc[p] \in {"done", "failed"}
           => /\ pc[p] = "done"
              /\ ~IsDecimal(counter[op[p].user].text) => count[p] = 0

\* the step in which caller p makes the reader call `name`
ReadBy(p, name) ==
    ncalls' = ncalls + 1 /\ op'[p].time = ncalls' /\ op'[p].name = name

\* C12: on an absent counter key get_denormalized_count returns 0,
\* whatever the store holds, and the call leaves every key as it was.
C12_UnsetCounterZero ==
    [][\A p \in Procs :
          ReadBy(p, "get_denormalized_count") /\ ~counter[op'[p].user].exists
             => /\ pc'[p] = "done" /\ count'[p] = 0
                /\ store' = store /\ counter' = counter
                /\ channel' = channel /\ lock' = lock]_vars

C12_Witness ==
    \E p \in Procs :
        /\ pc[p] = "done" /\ op[p].name = "get_denormalized_count"
        /\ op[p].time = ncalls /\ count[p] = 0
        /\ ~counter[op[p].user].exists
        /\ store[op[p].user] # {}

\* the step is one of caller p's call
Acting(p) ==
    pc'[p] # pc[p] \/ (ncalls' = ncalls + 1 /\ op'[p].time = ncalls')

KeysSame(u) ==
    /\ store'[u] = store[u] /\ counter'[u] = counter[u]
    /\ channel'[u] = channel[u] /\ lock'[u] = lock[u]

KeyFree(u) == lock[u].owner = "none" \/ lock[u].age >= timeout

\* C13: a step of an operation for user A leaves the store, counter, lock
\* and channel of every other user as they were, and a caller waiting for
\* A's lock can take it whenever A's key is free, whatever the lock keys of
\* the other users hold.
C13_PerUserIndependence ==
    /\ [][\A p \in Procs : Acting(p) =>
              \A u \in Users \ {op'[p].user} : KeysSame(u)]_vars
    /\ [](\A p \in Procs :
              pc[p] = "lock" /\ KeyFree(op[p].user) => ENABLED Acquire(p))

C13_Witness ==
    \E p, q \in Procs :
        /\ op[p].user # op[q].user
        /\ InBlock(p) /\ lock[op[p].user] = [owner |-> p, age |-> 1]
        /\ InBlock(q) /\ lock[op[q].user].owner = q
        /\ Logged(p, "store") /\ Logged(q, "set")

\* C14: a caller that is not inside a call can make either reader call in
\* every state, also while the user's lock is held; the call returns in
\* the same step and changes no store, counter, channel or lock.
C14_ReadersNeverWait ==
    /\ [](\A p \in Procs, u \in Users :
              Free(p) /\ ncalls < MaxCalls
                 => /\ ENABLED GetDenormalizedCount(p, u)
                    /\ ENABLED CountUnseen(p, u))
    /\ [][\A p \in Procs :
              ReadBy(p, "get_denormalized_count") \/ ReadBy(p, "count_unseen")
                 => /\ pc'[p] = "done"
                    /\ store' = store /\ counter' = counter
                    /\ channel' = channel /\ lock' = lock]_vars

C14_Witness ==
    \E p, q \in Procs :
        /\ pc[p] = "done" /\ op[p].name = "count_unseen" /\ op[p].time = ncalls
        /\ InBlock(q) /\ op[q].user = op[p].user
        /\ lock[op[q].user].owner = q /\ lock[op[q].user].age < timeout
        /\ Logged(q, "store")

\* place of a write in the order store mutation, counter write, publish
StepRank(e) == CASE e.kind = "store" -> 1 [] e.kind = "set" -> 2 [] OTHER -> 3

\* C15 (as claimed): within one add_many or mark_all the store mutation
\* comes before the counter write and the counter write before the publish;
\* no counter write or publish precedes the call's store mutation.
C15_StepOrdering ==
    \A p \in Procs : \A i, j \in DOMAIN log[p] :
        i < j => StepRank(log[p][i]) <= StepRank(log[p][j])

Writes(p, k) == Cardinality({i \in DOMAIN log[p] : log[p][i].kind = k})

\* C16 (as claimed): on a feed with a pubsub_key, a successful add_many or
\* mark_all has made exactly one counter write and exactly one publish, and
\* at most one batched store write.
C16_OneWriteOnePublish ==
    \A p \in Procs :
        pc[p] = "done" /\ Mutating(p) /\ pubsub_key(op[p].user)
           => /\ Writes(p, "set") = 1
              /\ Writes(p, "publish") = 1
              /\ Writes(p, "store") <= 1

\* the members of S among its first max_length
TopOf(S) == {v \in S : RankIn(v, S) <= max_length}
\* member v lacks a flag the call of p asks for
Unflagged(p, v) ==
    (op[p].seen /\ v[3] = NoTime) \/ (op[p].read /\ v[4] = NoTime)
\* the steps of mark_all: the read with its loop, and the end of map()
MarkAllReads(p) == pc[p] = "ma_read" /\ pc'[p] = "ma_set"
MarkAllFlushes(p) == pc[p] = "ma_flush" /\ pc'[p] = "ma_exit"

\* C17: a mark_all that finds no entry of the top max_length to change
\* has an empty swap set; with an empty swap set it issues no store write
\* and leaves the store as it is, and it has written the number of unseen
\* entries of the whole top max_length list to the counter and, on a feed
\* with a pubsub_key, published it.
C17_NoChangeMarkAll ==
    [][\A p \in Procs :
          /\ MarkAllReads(p)
                /\ (\A v \in TopOf(store[op[p].user]) : ~Unflagged(p, v))
                => update_dict'[p] = {}
          /\ MarkAllFlushes(p) /\ update_dict[p] = {}
                => /\ store' = store
                   /\ Writes(p, "store")' = 0
                   /\ Writes(p, "set")' = 1
                   /\ \E i \in DOMAIN log[p] :
                         /\ log[p][i].kind = "set"
                         /\ log[p][i].val = UnseenInFirst(acts[p])
                   /\ pubsub_key(op[p].user) =>
                         \E i \in DOMAIN log[p] :
                             /\ log[p][i].kind = "publish"
                             /\ log[p][i].val = UnseenInFirst(acts[p])]_vars

C17_Witness ==
    \E p \in Procs :
        /\ pc[p] = "done" /\ op[p].name = "mark_all" /\ ~op[p].seen /\ ~op[p].read
        /\ Writes(p, "store") = 0 /\ Writes(p, "publish") = 1
        /\ Len(acts[p]) = max_length
        /\ \E i \in DOMAIN log[p] :
              log[p][i].kind = "set" /\ log[p][i].val = max_length
        /\ \A i \in DOMAIN acts[p] : ~is_seen(acts[p][i])

\* C18: the loop of mark_all sets seen_at only where seen is requested and
\* the entry is unseen, read_at only where read is requested and the entry
\* is unread, and changes nothing else; update_dict holds exactly the
\* entries of the top max_length that lacked a requested flag; a write of
\* mark_all never replaces a set seen_at or read_at of a member.
C18_FlagsSetOnce ==
    [][\A p \in Procs :
          /\ MarkAllReads(p) =>
                LET top == TopOf(store[op[p].user]) IN
                /\ \A x \in update_dict'[p] :
                      /\ serialize_activity(x[1]) \in top
                      /\ x[2].group = x[1].group
                      /\ x[2].updated_at = x[1].updated_at
                      /\ x[2].seen_at = IF op[p].seen /\ x[1].seen_at = NoTime
                                        THEN op[p].time ELSE x[1].seen_at
                      /\ x[2].read_at = IF op[p].read /\ x[1].read_at = NoTime
                                        THEN op[p].time ELSE x[1].read_at
                /\ \A v \in top :
                      Unflagged(p, v) <=>
                          \E x \in update_dict'[p] : serialize_activity(x[1]) = v
          /\ op[p].name = "mark_all" /\ pc'[p] # pc[p] =>
                \A v \in store[op[p].user] \ store'[op[p].user] :
                    \E w \in store'[op[p].user] :
                        /\ w[1] = v[1] /\ w[2] = v[2]
                        /\ v[3] # NoTime => w[3] = v[3]
                        /\ v[4] # NoTime => w[4] = v[4]]_vars

C18_Witness ==
    \E p \in Procs :
        /\ pc[p] = "ma_exit" /\ op[p].seen /\ op[p].read
        /\ Cardinality(update_dict[p]) = max_length
        /\ \A x \in update_dict[p] :
              /\ x[1].seen_at # NoTime /\ x[2].seen_at = x[1].seen_at
              /\ x[1].read_at = NoTime /\ x[2].read_at = op[p].time
              /\ serialize_activity(x[2]) \in store[op[p].user]

\* group and updated_at of the members of S
Keys(S) == {<<v[1], v[2]>> : v \in S}
\* one serialized entry for each group
OneEach(S) == \A v, w \in S : v[1] = w[1] => v = w
\* a step of mark_all that writes to the store
MarkAllWrites(p) ==
    /\ op[p].name = "mark_all" /\ pc'[p] # pc[p]
    /\ store'[op[p].user] # store[op[p].user]
Preserved(u) ==
    /\ Cardinality(store'[u]) = Cardinality(store[u])
    /\ Keys(store'[u]) = Keys(store[u])
    /\ OneEach(store'[u])

\* C19 (as claimed): in every execution, a store write of mark_all leaves
\* the number of entries, their groups and their updated_at as they were,
\* and one serialized entry for each group.
C19_MarkAllKeepsEntries_AsClaimed ==
    [][\A p \in Procs : MarkAllWrites(p) => Preserved(op[p].user)]_vars

\* C19 (amended): the same, when no two guarded blocks of the user have
\* overlapped.
C19_MarkAllKeepsEntries ==
    [][\A p \in Procs :
          MarkAllWrites(p) /\ ~raced[op[p].user] => Preserved(op[p].user)]_vars

C19_Witness ==
    \E p \in Procs :
        /\ pc[p] = "done" /\ op[p].name = "mark_all" /\ op[p].read
        /\ Writes(p, "store") = 1 /\ ~raced[op[p].user]
        /\ Cardinality(store[op[p].user]) = Cardinality(Groups)
        /\ OneEach(store[op[p].user])
        /\ \E v \in store[op[p].user] : v[4] # NoTime

\* caller p has written the count of acts[p] and is still inside its call
Counted(p) ==
    pc[p] \in {"am_publish", "am_publish2", "am_exit",
               "ma_publish", "ma_flush", "ma_exit", "dn_publish"}

\* C20: the counter cell holds, and every counter write and every publish
\* carries, an integer from 0 up to max_length that is not above the
\* length of the collection it was counted from.
C20_CounterRange ==
    /\ \A u \in Users :
          /\ counter[u].exists =>
                \E n \in 0..max_length : counter[u].text = ToString(n)
          /\ channel[u] \in {NoMessage} \cup 0..max_length
    /\ \A p \in Procs :
          /\ \A i \in DOMAIN log[p] :
                log[p][i].kind \in {"set", "publish"}
                   => log[p][i].val \in 0..max_length
          /\ Counted(p) =>
                /\ count[p] >= 0
                /\ count[p] <= max_length
                /\ count[p] <= Len(acts[p])

C20_Witness ==
    \E p, q \in Procs :
        /\ pc[p] = "am_exit" /\ Len(acts[p]) > max_length
        /\ \A i \in DOMAIN acts[p] : ~is_seen(acts[p][i])
        /\ count[p] = max_length /\ Writes(p, "publish") = 2
        /\ pc[q] = "am_exit" /\ Len(acts[q]) < max_length
        /\ count[q] = Len(acts[q]) /\ count[q] > 0

====
